---- MODULE Spec2Model ----
(***************************************************************************)
(* Model of the game-catalog merger (merge.py): name normalisation, the    *)
(* per-field record reconciliation, the positional inserter, the ordered   *)
(* merge driver and main's fold over the three scraped lists.              *)
(*                                                                         *)
(* A Python str is a sequence of code points; a Python value that may be   *)
(* None is [isNone, str]; a dict is a function over its keys; dict objects *)
(* live in `heap` and list objects in `lists`; a list holds references to  *)
(* dicts and a variable holds a reference to a list (0: unbound), so that  *)
(* copying and aliasing are distinguishable.  List positions kept by the   *)
(* code (norm_to_game values, insert_pos) are 0-based as in the code.      *)
(***************************************************************************)
EXTENDS Integers, Sequences, FiniteSets, TLC

VARIABLES
    pc,                \* position of main / merge_ordered_games
    heap,              \* dict objects: reference -> record
    lists,             \* list objects: reference -> sequence of dict references
    scraper3_games,    \* list returned by the GamerPower web scraper
    scraper1_games,    \* list returned by the Telegram scraper
    scraper2_games,    \* list returned by the GamerPower API scraper
    existing_merged,   \* records loaded from games.json
    games_json,        \* persisted catalog: the 'games' list of games.json
    merged,            \* main's accumulating list
    call,              \* which merge_ordered_games call is active (0: none)
    base_games,        \* argument of the active call
    new_source_games,  \* argument of the active call
    result,            \* local of merge_ordered_games
    norm_to_game,      \* local of merge_ordered_games: key -> 0-based index
    j,                 \* 1-based position of the for loop in new_source_games
    insert_pos,        \* local of merge_ordered_games (-1: no insertion in the last iteration)
    name_in,           \* argument of a normalize_name call
    normalized,        \* its return value
    fpc,               \* position of fetch_gamerpower_games
    api_games,         \* the giveaways of the API response
    future_state,      \* per submitted process_game future: its state
    results,           \* dict idx -> result, in insertion order
    all_games          \* list fetch_gamerpower_games returns

vars == <<pc, heap, lists, scraper3_games, scraper1_games, scraper2_games,
          existing_merged, games_json, merged, call, base_games,
          new_source_games, result, norm_to_game, j, insert_pos,
          name_in, normalized, fpc, api_games, future_state, results,
          all_games>>

apiVars == <<fpc, api_games, future_state, results, all_games>>

mergeVars == <<heap, lists, scraper3_games, scraper1_games, scraper2_games,
               existing_merged, games_json, merged, call, base_games,
               new_source_games, result, norm_to_game, j, insert_pos>>

----------------------------------------------------------------------------
(* Bounds *)

\* total number of records the three scrapers return in one run
MaxRecords == 4

\* longest input string given to normalize_name on its own
MaxNameLen == 3

----------------------------------------------------------------------------
(* Python values *)

None == [isNone |-> TRUE, str |-> <<>>]

Str(s) == [isNone |-> FALSE, str |-> s]

\* Python truthiness of an optional string: None and "" are falsy
Truthy(v) == ~v.isNone /\ v.str # <<>>

\* dict.get(key, default)
Get(g, key, default) == IF key \in DOMAIN g THEN g[key] ELSE default

Min(S) == CHOOSE x \in S : \A y \in S : x <= y

Max(S) == CHOOSE x \in S : \A y \in S : x >= y

\* the records a list of references points at
Deref(h, list) == [i \in 1..Len(list) |-> h[list[i]]]

\* all sequences over S of length at most n
SeqUpTo(S, n) == UNION {[1..m -> S] : m \in 0..n}

----------------------------------------------------------------------------
(* normalize_name *)

\* unicodedata.normalize('NFKD', c) for one code point: e-acute and E-acute
\* decompose to the letter and U+0301, NBSP to a space, everything else of
\* the alphabet used here is its own decomposition
NFKDChar(c) ==
    CASE c = 233 -> <<101, 769>>
      [] c = 201 -> <<69, 769>>
      [] c = 160 -> <<32>>
      [] OTHER   -> <<c>>

RECURSIVE NFKD(_)
NFKD(s) == IF s = <<>> THEN <<>> ELSE NFKDChar(Head(s)) \o NFKD(Tail(s))

\* .encode('ascii', 'ignore').decode('ascii')
AsciiIgnore(s) == SelectSeq(s, LAMBDA c : c < 128)

\* str.lower() on ASCII
LowerChar(c) == IF c >= 65 /\ c <= 90 THEN c + 32 ELSE c

Lower(s) == [i \in 1..Len(s) |-> LowerChar(s[i])]

\* \s on ASCII text
IsSpace(c) == c \in {9, 10, 11, 12, 13, 28, 29, 30, 31, 32}

\* \w on ASCII text: letters, digits and the underscore
IsWord(c) ==
    \/ (c >= 48 /\ c <= 57)
    \/ (c >= 65 /\ c <= 90)
    \/ (c >= 97 /\ c <= 122)
    \/ c = 95

\* re.sub(r'[^\w\s]', '', s)
RemovePunct(s) == SelectSeq(s, LAMBDA c : IsWord(c) \/ IsSpace(c))

\* re.sub(r'\s+', ' ', s)
RECURSIVE CollapseSpace(_)
CollapseSpace(s) ==
    IF s = <<>> THEN <<>>
    ELSE IF IsSpace(Head(s))
         THEN IF Len(s) > 1 /\ IsSpace(s[2])
              THEN CollapseSpace(Tail(s))
              ELSE <<32>> \o CollapseSpace(Tail(s))
         ELSE <<Head(s)>> \o CollapseSpace(Tail(s))

RECURSIVE LStrip(_)
LStrip(s) == IF s # <<>> /\ IsSpace(Head(s)) THEN LStrip(Tail(s)) ELSE s

RECURSIVE RStrip(_)
RStrip(s) ==
    IF s # <<>> /\ IsSpace(s[Len(s)]) THEN RStrip(SubSeq(s, 1, Len(s) - 1)) ELSE s

\* str.strip()
Strip(s) == LStrip(RStrip(s))

normalize_name(name) ==
    IF name.isNone \/ name.str = <<>>
    THEN <<>>
    ELSE Strip(CollapseSpace(RemovePunct(Lower(AsciiIgnore(NFKD(name.str))))))

\* normalize_name(g.get('name', ''))
Key(g) == normalize_name(Get(g, "name", Str(<<>>)))

----------------------------------------------------------------------------
(* Records the scrapers produce *)

\* description strings of the Telegram feed and of the API
D1 == Str(<<100, 49>>)

D2 == Str(<<100, 50>>)

Steam == Str(<<115>>)

Epic == Str(<<101>>)

\* names as the web page spells them: "A", "B" and a title with no ASCII
\* character at all
WebNames == {<<65>>, <<66>>, <<21407>>}

\* names as the API spells them: "A", "b!", "c" and ""
ApiNames == {<<65>>, <<98, 33>>, <<99>>, <<>>}

\* process_single_game: description is always None, platform always set;
\* the page lists "A" once for each of two platforms
WebRecords ==
    {[name |-> Str(n), description |-> None, platform |-> Steam] : n \in WebNames}
        \cup {[name |-> Str(<<65>>), description |-> None, platform |-> Epic]}

\* parse_game_info / extract_games: description may be None, no platform key
TgRecords ==
    {[name |-> Str(<<97, 58>>), description |-> None],
     [name |-> Str(<<97, 58>>), description |-> D1],
     [name |-> Str(<<98>>), description |-> D1],
     [name |-> Str(<<67, 32>>), description |-> None],
     [name |-> Str(<<58>>), description |-> D1]}

\* process_game: description and platform from the API
ApiRecords ==
    {[name |-> Str(n), description |-> D2, platform |-> Epic] : n \in ApiNames}

\* input alphabet of normalize_name: A a 1 space tab : _ e-acute and a CJK letter
Chars == {65, 97, 49, 32, 9, 58, 95, 233, 21407}

----------------------------------------------------------------------------
(* merge.py *)

\* the dict merge_game_entries builds from two dicts
MergedEntry(game1, game2) ==
    [key \in DOMAIN game1 \cup DOMAIN game2 |->
        IF key \notin DOMAIN game1 \/ game1[key].isNone
        THEN IF key \in DOMAIN game2 THEN game2[key] ELSE game1[key]
        ELSE game1[key]]

\* merge_game_entries with merged = game1 in place of game1.copy()
merge_game_entries_in_place(h, game1, game2) ==
    [heap |-> [h EXCEPT ![game1] = MergedEntry(h[game1], h[game2])], ref |-> game1]

\* merge_game_entries on references: game1.copy() is a new object
merge_game_entries(h, game1, game2) ==
    [heap |-> Append(h, MergedEntry(h[game1], h[game2])), ref |-> Len(h) + 1]

\* dict.copy(): a new object with the same items
CopyGame(h, game) == [heap |-> Append(h, h[game]), ref |-> Len(h) + 1]

\* list.copy(): a new list object holding the same references
CopyList(ls, list) == [lists |-> Append(ls, ls[list]), ref |-> Len(ls) + 1]

InsertAtOverwrite(list, pos, x) ==
    SubSeq(list, 1, pos) \o <<x>> \o SubSeq(list, pos + 2, Len(list))

\* list.insert(pos, x), pos 0-based and at most len(list)
InsertAt(list, pos, x) ==
    SubSeq(list, 1, pos) \o <<x>> \o SubSeq(list, pos + 1, Len(list))

\* any(normalize_name(g.get('name', '')) == norm for g in ordered_games)
InList(games, norm) == \E m \in 1..Len(games) : Key(games[m]) = norm

\* for idx, game in enumerate(games): if key == norm: return idx
FirstIndex(games, norm) == Min({m \in 1..Len(games) : Key(games[m]) = norm}) - 1

\* find_insertion_position returning the anchor-before's own index (line 61
\* without the + 1)
find_insertion_position_at_before(ordered_games, new_game, source_games) ==
    LET norm_new == Key(new_game)
        found == {i \in 1..Len(source_games) : Key(source_games[i]) = norm_new}
    IN  IF found = {} THEN Len(ordered_games)
        ELSE
          LET p == Min(found)
              befores == {i \in 1..(p - 1) : InList(ordered_games, Key(source_games[i]))}
              afters == {i \in (p + 1)..Len(source_games) :
                            InList(ordered_games, Key(source_games[i]))}
              game_before == IF befores = {} THEN None
                             ELSE Str(Key(source_games[Max(befores)]))
              game_after == IF afters = {} THEN None
                            ELSE Str(Key(source_games[Min(afters)]))
          IN  IF Truthy(game_after) THEN FirstIndex(ordered_games, game_after.str)
              ELSE IF Truthy(game_before)
                   THEN FirstIndex(ordered_games, game_before.str)
                   ELSE Len(ordered_games)

find_insertion_position(ordered_games, new_game, source_games) ==
    LET norm_new == Key(new_game)
        found == {i \in 1..Len(source_games) : Key(source_games[i]) = norm_new}
    IN  IF found = {} THEN Len(ordered_games)
        ELSE
          LET p == Min(found)
              befores == {i \in 1..(p - 1) : InList(ordered_games, Key(source_games[i]))}
              afters == {i \in (p + 1)..Len(source_games) :
                            InList(ordered_games, Key(source_games[i]))}
              game_before == IF befores = {} THEN None
                             ELSE Str(Key(source_games[Max(befores)]))
              game_after == IF afters = {} THEN None
                            ELSE Str(Key(source_games[Min(afters)]))
          IN  IF Truthy(game_after) THEN FirstIndex(ordered_games, game_after.str)
              ELSE IF Truthy(game_before)
                   THEN FirstIndex(ordered_games, game_before.str) + 1
                   ELSE Len(ordered_games)

\* BuildIndex keyed by g.get('name', '') itself, not by its normalisation
BuildIndexRawName(games) ==
    [k \in {Get(games[i], "name", Str(<<>>)).str : i \in 1..Len(games)} |->
        Max({i \in 1..Len(games) : Get(games[i], "name", Str(<<>>)).str = k}) - 1]

\* {normalize_name(g.get('name', '')): i for i, g in enumerate(base_games)}
BuildIndex(games) ==
    [k \in {Key(games[i]) : i \in 1..Len(games)} |->
        Max({i \in 1..Len(games) : Key(games[i]) = k}) - 1]

\* ShiftIndex without line 87: the new entry is not recorded
ShiftIndexNoNewEntry(index, pos, norm_name) ==
    [k \in DOMAIN index |-> IF index[k] >= pos THEN index[k] + 1 ELSE index[k]]

\* the index update after an insertion at pos
ShiftIndex(index, pos, norm_name) ==
    [k \in DOMAIN index \cup {norm_name} |->
        IF k = norm_name THEN pos
        ELSE IF index[k] >= pos THEN index[k] + 1 ELSE index[k]]

\* norm_name in norm_to_game
IsKnown(index, norm_name) == norm_name \in DOMAIN index

----------------------------------------------------------------------------
(* main *)

\* len() of the list a variable is bound to
LenOf(list) == IF list = 0 THEN 0 ELSE Len(lists[list])

\* the records of the list a variable is bound to
Games(list) == Deref(heap, lists[list])

Used == LenOf(scraper3_games) + LenOf(scraper1_games) + LenOf(scraper2_games)

\* references Len(h)+1 .. Len(h)+n
NewRefs(h, n) == [i \in 1..n |-> Len(h) + i]

\* a scraper returns a new list of new dicts
Scraped(games) ==
    /\ heap' = heap \o games
    /\ lists' = Append(lists, NewRefs(heap, Len(games)))

Scraper3UpTo(limit) ==
    /\ pc = "scraper3"
    /\ \E games \in SeqUpTo(WebRecords, limit) : Scraped(games)
    /\ scraper3_games' = Len(lists) + 1
    /\ pc' = "scraper1"
    /\ UNCHANGED <<scraper1_games, scraper2_games, existing_merged, games_json,
                   merged, call, base_games, new_source_games, result,
                   norm_to_game, j, insert_pos, name_in, normalized, apiVars>>

Scraper1UpTo(limit) ==
    /\ pc = "scraper1"
    /\ \E games \in SeqUpTo(TgRecords, limit - Used) : Scraped(games)
    /\ scraper1_games' = Len(lists) + 1
    /\ pc' = "scraper2"
    /\ UNCHANGED <<scraper3_games, scraper2_games, existing_merged, games_json,
                   merged, call, base_games, new_source_games, result,
                   norm_to_game, j, insert_pos, name_in, normalized, apiVars>>

Scraper2UpTo(limit) ==
    /\ pc = "scraper2"
    /\ \E games \in SeqUpTo(ApiRecords, limit - Used) : Scraped(games)
    /\ scraper2_games' = Len(lists) + 1
    /\ pc' = "load"
    /\ UNCHANGED <<scraper3_games, scraper1_games, existing_merged, games_json,
                   merged, call, base_games, new_source_games, result,
                   norm_to_game, j, insert_pos, name_in, normalized, apiVars>>

Scraper3 == Scraper3UpTo(MaxRecords)

Scraper1 == Scraper1UpTo(MaxRecords)

Scraper2 == Scraper2UpTo(MaxRecords)

LoadExisting ==
    /\ pc = "load"
    /\ existing_merged' = games_json
    /\ merged' = scraper3_games
    /\ pc' = "merge1"
    /\ UNCHANGED <<heap, lists, scraper3_games, scraper1_games, scraper2_games,
                   games_json, call, base_games, new_source_games, result,
                   norm_to_game, j, insert_pos, name_in, normalized, apiVars>>

\* the call of merge_ordered_games up to the for loop
EnterWith(n, base, source) ==
    /\ call' = n
    /\ base_games' = base
    /\ new_source_games' = source
    /\ norm_to_game' = BuildIndex(Games(base))
    /\ LET c == CopyList(lists, base)
       IN  /\ lists' = c.lists
           /\ result' = c.ref
    /\ j' = 1
    /\ insert_pos' = -1
    /\ pc' = "loop"
    /\ UNCHANGED <<heap, scraper3_games, scraper1_games, scraper2_games,
                   existing_merged, games_json, merged, name_in, normalized, apiVars>>

MergeEnter ==
    \/ pc = "merge1" /\ EnterWith(1, merged, scraper1_games)
    \/ pc = "merge2" /\ EnterWith(2, merged, scraper2_games)

InLoop == pc = "loop" /\ j <= Len(lists[new_source_games])

game == lists[new_source_games][j]

norm_name == Key(heap[game])

IterSkip ==
    /\ InLoop
    /\ norm_name = <<>>
    /\ j' = j + 1
    /\ insert_pos' = -1
    /\ UNCHANGED <<pc, heap, lists, scraper3_games, scraper1_games,
                   scraper2_games, existing_merged, games_json, merged, call,
                   base_games, new_source_games, result, norm_to_game,
                   name_in, normalized, apiVars>>

IterUpdate ==
    /\ InLoop
    /\ norm_name # <<>>
    /\ IsKnown(norm_to_game, norm_name)
    /\ LET idx == norm_to_game[norm_name]
           m == merge_game_entries(heap, lists[result][idx + 1], game)
       IN  /\ heap' = m.heap
           /\ lists' = [lists EXCEPT ![result][idx + 1] = m.ref]
    /\ j' = j + 1
    /\ insert_pos' = -1
    /\ UNCHANGED <<pc, scraper3_games, scraper1_games, scraper2_games,
                   existing_merged, games_json, merged, call, base_games,
                   new_source_games, result, norm_to_game, name_in, normalized, apiVars>>

IterInsert ==
    /\ InLoop
    /\ norm_name # <<>>
    /\ ~IsKnown(norm_to_game, norm_name)
    /\ LET pos == find_insertion_position(Games(result), heap[game],
                                          Games(new_source_games))
           c == CopyGame(heap, game)
       IN  /\ heap' = c.heap
           /\ lists' = [lists EXCEPT ![result] = InsertAt(@, pos, c.ref)]
           /\ norm_to_game' = ShiftIndex(norm_to_game, pos, norm_name)
           /\ insert_pos' = pos
    /\ j' = j + 1
    /\ UNCHANGED <<pc, scraper3_games, scraper1_games, scraper2_games,
                   existing_merged, games_json, merged, call, base_games,
                   new_source_games, result, name_in, normalized, apiVars>>

MergeReturn ==
    /\ pc = "loop"
    /\ j > Len(lists[new_source_games])
    /\ merged' = result
    /\ pc' = CASE call = 1 -> "merge2" [] call = 2 -> "guard" [] OTHER -> "probed"
    /\ UNCHANGED <<heap, lists, scraper3_games, scraper1_games, scraper2_games,
                   existing_merged, games_json, call, base_games,
                   new_source_games, result, norm_to_game, j, insert_pos,
                   name_in, normalized, apiVars>>

\* save_merged_json: the 'games' entry of the file
SaveWhenNotSmaller ==
    /\ pc = "guard"
    /\ LenOf(merged) >= Len(existing_merged)
    /\ games_json' = Games(merged)
    /\ pc' = "done"
    /\ UNCHANGED <<heap, lists, scraper3_games, scraper1_games, scraper2_games,
                   existing_merged, merged, call, base_games, new_source_games,
                   result, norm_to_game, j, insert_pos, name_in, normalized, apiVars>>

Save ==
    /\ pc = "guard"
    /\ LenOf(merged) > Len(existing_merged)
    /\ games_json' = Games(merged)
    /\ pc' = "done"
    /\ UNCHANGED <<heap, lists, scraper3_games, scraper1_games, scraper2_games,
                   existing_merged, merged, call, base_games, new_source_games,
                   result, norm_to_game, j, insert_pos, name_in, normalized, apiVars>>

NoSave ==
    /\ pc = "guard"
    /\ ~(LenOf(merged) > Len(existing_merged))
    /\ pc' = "done"
    /\ UNCHANGED <<heap, lists, scraper3_games, scraper1_games, scraper2_games,
                   existing_merged, games_json, merged, call, base_games,
                   new_source_games, result, norm_to_game, j, insert_pos,
                   name_in, normalized, apiVars>>

\* nothing is bound and nothing allocated
Unbound ==
    /\ heap = <<>>
    /\ lists = <<>>
    /\ scraper3_games = 0
    /\ scraper1_games = 0
    /\ scraper2_games = 0
    /\ existing_merged = <<>>
    /\ games_json = <<>>
    /\ merged = 0
    /\ call = 0
    /\ base_games = 0
    /\ new_source_games = 0
    /\ result = 0
    /\ norm_to_game = <<>>
    /\ j = 1
    /\ insert_pos = -1

\* fetch_gamerpower_games is not running
ApiIdle ==
    /\ fpc = "idle"
    /\ api_games = <<>>
    /\ future_state = <<>>
    /\ results = <<>>
    /\ all_games = <<>>

Init ==
    /\ pc = "scraper3"
    /\ Unbound
    /\ ApiIdle
    /\ name_in = None
    /\ normalized = <<>>

Next ==
    \/ Scraper3
    \/ Scraper1
    \/ Scraper2
    \/ LoadExisting
    \/ MergeEnter
    \/ IterSkip
    \/ IterUpdate
    \/ IterInsert
    \/ MergeReturn
    \/ Save
    \/ NoSave

Spec == Init /\ [][Next]_vars

----------------------------------------------------------------------------
(* merge_ordered_games applied to a finished catalog and itself *)

SelfMergeEnter == pc = "done" /\ EnterWith(3, merged, merged)

NextSelf == Next \/ SelfMergeEnter

SpecSelf == Init /\ [][NextSelf]_vars

----------------------------------------------------------------------------
(* normalize_name on its own *)

InitNorm ==
    /\ pc = "normalize"
    /\ name_in \in {None} \cup {Str(s) : s \in SeqUpTo(Chars, MaxNameLen)}
    /\ normalized = <<>>
    /\ Unbound
    /\ ApiIdle

NormalizeName ==
    /\ pc = "normalize"
    /\ normalized' = normalize_name(name_in)
    /\ pc' = "normalized"
    /\ UNCHANGED <<mergeVars, name_in, apiVars>>

SpecNorm == InitNorm /\ [][NormalizeName]_vars

----------------------------------------------------------------------------
(* Vocabulary of the properties *)

\* a call of merge_ordered_games has returned; its arguments and its result
\* list are those of the last call
Returned == call > 0 /\ pc # "loop"

\* main's fold is complete
FoldDone == pc \in {"guard", "done"}

KeysOf(games) == {Key(games[i]) : i \in 1..Len(games)}

KeySeq(games) == [i \in 1..Len(games) |-> Key(games[i])]

UniqueByKey(games) ==
    \A a, b \in 1..Len(games) : a # b => Key(games[a]) # Key(games[b])

----------------------------------------------------------------------------
(* C1: the catalog main builds from the web list, then the Telegram list,  *)
(* then the API list holds no two records with the same NormalizedKey.     *)
C1_CatalogUniqueByKey == FoldDone => UniqueByKey(Games(merged))

----------------------------------------------------------------------------
(* C2: the length of merge_ordered_games(base, incoming) is len(base) plus *)
(* the number of distinct NormalizedKeys of incoming that are not keys of  *)
(* base.                                                                   *)
C2_LengthCountsAllNewKeys ==
    Returned =>
        LenOf(result) = LenOf(base_games)
            + Cardinality(KeysOf(Games(new_source_games)) \ KeysOf(Games(base_games)))

(* C2 as amended: the length is len(base) plus the number of distinct      *)
(* non-empty NormalizedKeys of incoming that are not keys of base.         *)
C2_LengthCountsNewNonEmptyKeys ==
    Returned =>
        LenOf(result) = LenOf(base_games)
            + Cardinality((KeysOf(Games(new_source_games)) \ {<<>>})
                              \ KeysOf(Games(base_games)))

\* a merge returned whose incoming list held an empty-key record unknown to
\* base, a repeated new key and a key of base
C2_Witness ==
    /\ Returned
    /\ <<>> \in KeysOf(Games(new_source_games)) \ KeysOf(Games(base_games))
    /\ ~UniqueByKey(Games(new_source_games))
    /\ LenOf(result) > LenOf(base_games)
    /\ LenOf(base_games) > 0

----------------------------------------------------------------------------
(* C3: the list merge_ordered_games returns holds no record whose          *)
(* NormalizedKey is empty, whichever input list the record came from.      *)
C3_NoEmptyKeyInResult == Returned => <<>> \notin KeysOf(Games(result))

----------------------------------------------------------------------------
(* C4: merge_game_entries is a per-field "existing wins" merge, and over   *)
(* the sequential merges a key's field ends with the first non-null value  *)
(* seen for it in the order base, first source, second source.             *)

Fields == {"name", "description", "platform"}

\* the step taken is a reconciliation (lines 76-78)
ReconcileStep ==
    pc = "loop" /\ j' = j + 1 /\ insert_pos' = -1 /\ Len(heap') > Len(heap)

PerFieldExistingWins(existing, incoming, res) ==
    \A f \in Fields :
        /\ (f \in DOMAIN existing /\ ~existing[f].isNone)
              => (f \in DOMAIN res /\ res[f] = existing[f])
        /\ ((f \notin DOMAIN existing \/ existing[f].isNone) /\ f \in DOMAIN incoming)
              => (f \in DOMAIN res /\ res[f] = incoming[f])
        /\ (f \notin DOMAIN existing /\ f \notin DOMAIN incoming)
              => f \notin DOMAIN res

C4_ReconcileIsPerField ==
    ReconcileStep =>
        LET idx == norm_to_game[norm_name]
        IN  PerFieldExistingWins(heap[lists[result][idx + 1]], heap[game],
                                 heap'[lists'[result][idx + 1]])

\* what the three scrapers returned, in the order of the fold
AllScraped ==
    Games(scraper3_games) \o Games(scraper1_games) \o Games(scraper2_games)

\* where a non-null value of field f was seen for key k
SeenAt(k, f) ==
    {i \in 1..Len(AllScraped) :
        /\ Key(AllScraped[i]) = k
        /\ f \in DOMAIN AllScraped[i]
        /\ ~AllScraped[i][f].isNone}

C4_FirstNonNullWins ==
    FoldDone =>
        \A i \in 1..LenOf(merged) : \A f \in Fields :
            LET r == Games(merged)[i]
                seen == SeenAt(Key(r), f)
            IN  (Key(r) # <<>> /\ seen # {})
                    => (f \in DOMAIN r /\ r[f] = AllScraped[Min(seen)][f])

C4_ExistingWins == [][C4_ReconcileIsPerField]_vars /\ []C4_FirstNonNullWins

----------------------------------------------------------------------------
(* C5: find_insertion_position returns the index in result of the          *)
(* anchor-after when there is one, else one past the index of the          *)
(* anchor-before when there is one, else len(result).                      *)

\* the step taken is an insertion (lines 81-87)
InsertStep == pc = "loop" /\ pc' = "loop" /\ insert_pos' # -1

C5_AnchoredPosition ==
    InsertStep =>
        LET R == Games(result)
            S == Games(new_source_games)
            afters == {i \in (j + 1)..Len(S) : InList(R, Key(S[i]))}
            befores == {i \in 1..(j - 1) : InList(R, Key(S[i]))}
            pos == insert_pos'
        IN  IF afters # {}
            THEN pos < Len(R) /\ Key(R[pos + 1]) = Key(S[Min(afters)])
            ELSE IF befores # {}
                 THEN pos >= 1 /\ pos <= Len(R)
                      /\ Key(R[pos]) = Key(S[Max(befores)])
                 ELSE pos = Len(R)

C5_InsertionPosition == [][C5_AnchoredPosition]_vars

----------------------------------------------------------------------------
(* C6: when no NormalizedKey of incoming occurs in base, the merge returns *)
(* base followed by the new records, in the relative order in which their  *)
(* keys first occur in incoming.                                           *)

NoSharedKey ==
    KeysOf(Games(new_source_games)) \cap KeysOf(Games(base_games)) = {}

\* positions of incoming where a non-empty key occurs for the first time
FirstOccurrences(S) ==
    {i \in 1..Len(S) :
        Key(S[i]) # <<>> /\ \A m \in 1..(i - 1) : Key(S[m]) # Key(S[i])}

\* the distinct non-empty keys of incoming in the order of first occurrence
FirstOccurrenceKeys(S) ==
    LET F == FirstOccurrences(S)
    IN  [n \in 1..Cardinality(F) |->
            Key(S[CHOOSE i \in F : Cardinality({m \in F : m <= i}) = n])]

\* the keys of the records of result after the first len(base)
TailKeys ==
    KeySeq(SubSeq(Games(result), LenOf(base_games) + 1, LenOf(result)))

BaseIsPrefix ==
    SubSeq(lists[result], 1, LenOf(base_games)) = lists[base_games]

C6_AppendedInFirstOccurrenceOrder ==
    (Returned /\ NoSharedKey) =>
        /\ BaseIsPrefix
        /\ TailKeys = FirstOccurrenceKeys(Games(new_source_games))

(* C6 as amended: when no key of incoming occurs in base, the merge        *)
(* returns base followed by one record for each distinct non-empty key of  *)
(* incoming; they are in first-occurrence order whenever no non-empty key  *)
(* occurs twice in incoming.                                               *)
C6_AppendedAfterBase ==
    (Returned /\ NoSharedKey) =>
        LET S == Games(new_source_games)
        IN  /\ BaseIsPrefix
            /\ Len(TailKeys) = Cardinality(FirstOccurrences(S))
            /\ {TailKeys[i] : i \in 1..Len(TailKeys)} = KeysOf(S) \ {<<>>}
            /\ (Cardinality(FirstOccurrences(S))
                    = Cardinality({i \in 1..Len(S) : Key(S[i]) # <<>>}))
                  => TailKeys = FirstOccurrenceKeys(S)

\* a merge with no shared key appended two records after a non-empty base
C6_Witness ==
    /\ Returned
    /\ NoSharedKey
    /\ LenOf(base_games) > 0
    /\ LenOf(result) >= LenOf(base_games) + 2
    /\ UniqueByKey(Games(new_source_games))

----------------------------------------------------------------------------
(* C7: merging a catalog with itself returns an equal list (same length,   *)
(* same records, same order); merging a source whose keys are all present  *)
(* inserts nothing and moves no record.                                    *)
C7_Idempotent ==
    /\ pc = "probed" => Games(result) = Games(base_games)
    /\ (Returned /\ KeysOf(Games(new_source_games)) \subseteq KeysOf(Games(base_games)))
          => /\ LenOf(result) = LenOf(base_games)
             /\ KeySeq(Games(result)) = KeySeq(Games(base_games))

\* a catalog of three records, built with a reconciliation and an
\* insertion, was merged with itself
C7_Witness ==
    /\ pc = "probed"
    /\ LenOf(base_games) >= 3
    /\ LenOf(scraper3_games) >= 1
    /\ LenOf(base_games) < Used
    /\ \E i \in 1..LenOf(result) : lists[result][i] # lists[base_games][i]

----------------------------------------------------------------------------
(* C8: normalize_name returns only lower-case ASCII letters, ASCII digits  *)
(* and single spaces, with no leading or trailing space.                   *)

IsLowerOrDigit(c) == (c >= 97 /\ c <= 122) \/ (c >= 48 /\ c <= 57)

C8_OnlyLettersDigitsSingleSpaces ==
    pc = "normalized" =>
        /\ \A i \in 1..Len(normalized) :
              IsLowerOrDigit(normalized[i]) \/ normalized[i] = 32
        /\ \A i \in 1..(Len(normalized) - 1) :
              ~(normalized[i] = 32 /\ normalized[i + 1] = 32)
        /\ normalized # <<>> =>
              (normalized[1] # 32 /\ normalized[Len(normalized)] # 32)

----------------------------------------------------------------------------
(* C9: merge_ordered_games leaves its arguments alone: the base list and   *)
(* the incoming list keep their elements, and no existing record has a     *)
(* field added or changed.                                                 *)

\* the result list is an object of its own
ResultIsFresh == pc = "loop" => (result # base_games /\ result # new_source_games)

\* a step changes no existing dict and no list but the call's result list
StepKeepsObjects ==
    /\ \A r \in 1..Len(heap) : r <= Len(heap') /\ heap'[r] = heap[r]
    /\ \A l \in 1..Len(lists) :
          (pc # "loop" \/ l # result) => (l <= Len(lists') /\ lists'[l] = lists[l])

C9_NoSideEffect == []ResultIsFresh /\ [][StepKeepsObjects]_vars

\* a call returned that both reconciled a record of base and inserted a
\* new one
C9_Witness ==
    /\ Returned
    /\ LenOf(result) > LenOf(base_games)
    /\ \E i \in 1..LenOf(result) :
          /\ Key(Games(result)[i]) \in KeysOf(Games(base_games))
          /\ \A b \in 1..LenOf(base_games) : lists[result][i] # lists[base_games][b]
          /\ \E b \in 1..LenOf(base_games) :
                /\ Key(Games(base_games)[b]) = Key(Games(result)[i])
                /\ Games(base_games)[b] # Games(result)[i]

----------------------------------------------------------------------------
(* C10: at the start and after every iteration of the loop, norm_to_game   *)
(* is exactly the index of the result list: every entry points at a record *)
(* of its key, and the key of every position maps to that position.        *)
C10_IndexIsExact ==
    pc = "loop" =>
        LET R == Games(result)
        IN  /\ \A k \in DOMAIN norm_to_game :
                  /\ norm_to_game[k] >= 0
                  /\ norm_to_game[k] < Len(R)
                  /\ Key(R[norm_to_game[k] + 1]) = k
            /\ \A i \in 1..Len(R) :
                  /\ Key(R[i]) \in DOMAIN norm_to_game
                  /\ norm_to_game[Key(R[i])] = i - 1

----------------------------------------------------------------------------
(* main run again and again: every run is a new process, games.json stays *)

\* most records the three scrapers return in one run, when main is run
\* more than once
MaxRunRecords == 2

\* 'total_games': len(games) of the persisted file (0 when there is none)
total_games == Len(games_json)

\* main is started again
NextRun ==
    /\ pc = "done"
    /\ pc' = "scraper3"
    /\ heap' = <<>>
    /\ lists' = <<>>
    /\ scraper3_games' = 0
    /\ scraper1_games' = 0
    /\ scraper2_games' = 0
    /\ existing_merged' = <<>>
    /\ merged' = 0
    /\ call' = 0
    /\ base_games' = 0
    /\ new_source_games' = 0
    /\ result' = 0
    /\ norm_to_game' = <<>>
    /\ j' = 1
    /\ insert_pos' = -1
    /\ UNCHANGED <<games_json, name_in, normalized, apiVars>>

NextRuns ==
    \/ Scraper3UpTo(MaxRunRecords)
    \/ Scraper1UpTo(MaxRunRecords)
    \/ Scraper2UpTo(MaxRunRecords)
    \/ LoadExisting
    \/ MergeEnter
    \/ IterSkip
    \/ IterUpdate
    \/ IterInsert
    \/ MergeReturn
    \/ Save
    \/ NoSave
    \/ NextRun

SpecRuns == Init /\ [][NextRuns]_vars

----------------------------------------------------------------------------
(* scraper_gp_api.py: fetch_gamerpower_games.  A title is a sequence of    *)
(* words; a platform marker or an excluded keyword is one word.            *)

\* most giveaways in one API response
MaxGiveaways == 3

\* ThreadPoolExecutor(max_workers=10)
max_workers == 10

ALLOWED_PLATFORMS ==
    {"(Steam) Giveaway", "(Epic Games) Giveaway", "(GOG) Giveaway",
     "(Ubisoft) Giveaway"}

EXCLUDED_KEYWORDS ==
    {"starter pack", "content pack", "starter kit", "dlc pack",
     "cosmetic pack", "bonus pack", "dlc", "expansion pack", "season pass",
     "add-on", "addon", "in-game item", "in-game content", "cosmetic",
     "skin pack", "bundle pack", "character pack", "weapon pack", "loot pack"}

dlc_patterns ==
    {" dlc ", "dlc:", "- dlc", "(dlc)", "downloadable content", "expansion:",
     "chapter pack", "booster pack"}

\* giveaways of the API: three valid ones (two of the same game), a DLC, a
\* pack named in the description and one with no allowed platform
Giveaways ==
    {[title |-> <<"A", "(Steam) Giveaway">>, description |-> <<"d2">>,
      worth |-> "N/A", published_date |-> "d1"],
     [title |-> <<"A", "(GOG) Giveaway">>, description |-> <<"d2">>,
      worth |-> "$9.99", published_date |-> "d2"],
     [title |-> <<"B", "(Epic Games) Giveaway">>, description |-> <<>>,
      worth |-> "$9.99", published_date |-> "d1"],
     [title |-> <<"A", "DLC", "(Steam) Giveaway">>, description |-> <<"d2">>,
      worth |-> "N/A", published_date |-> "d1"],
     [title |-> <<"C", "(Ubisoft) Giveaway">>, description |-> <<"Season Pass">>,
      worth |-> "N/A", published_date |-> "d2"],
     [title |-> <<"C", "(Xbox) Giveaway">>, description |-> <<"d2">>,
      worth |-> "N/A", published_date |-> "d1"]}

WordsOf(text) == {text[i] : i \in 1..Len(text)}

\* str.lower() on a word
LowerWord(w) ==
    CASE w = "DLC" -> "dlc"
      [] w = "Season Pass" -> "season pass"
      [] w = "N/A" -> "n/a"
      [] w = "Free" -> "free"
      [] OTHER -> w

LowerWords(text) == {LowerWord(w) : w \in WordsOf(text)}

is_valid_giveaway(title, description) ==
    /\ WordsOf(title) \cap ALLOWED_PLATFORMS # {}
    /\ (LowerWords(title) \cup LowerWords(description)) \cap EXCLUDED_KEYWORDS = {}
    /\ (LowerWords(title) \cup LowerWords(description)) \cap dlc_patterns = {}

extract_platform_from_title(title) ==
    IF "(Steam) Giveaway" \in WordsOf(title) THEN "steam"
    ELSE IF "(Epic Games) Giveaway" \in WordsOf(title) THEN "epic-games-store"
    ELSE IF "(GOG) Giveaway" \in WordsOf(title) THEN "gog"
    ELSE IF "(Ubisoft) Giveaway" \in WordsOf(title) THEN "ubisoft"
    ELSE "None"

clean_game_name(title) == SelectSeq(title, LAMBDA w : w \notin ALLOWED_PLATFORMS)

\* the price text built from worth
PriceOf(worth) ==
    IF worth = "N/A" \/ LowerWord(worth) = "free" THEN <<"Free">>
    ELSE <<worth, "-> Free">>

\* process_game: the result part of its return value (None for a skipped
\* one); the link comes from the network and is left out of the record
process_game(giveaway) ==
    IF ~is_valid_giveaway(giveaway.title, giveaway.description)
    THEN [isNone |-> TRUE, info |-> <<>>]
    ELSE [isNone |-> FALSE,
          info |-> [name |-> clean_game_name(giveaway.title),
                    description |-> giveaway.description,
                    price |-> PriceOf(giveaway.worth),
                    post_date |-> giveaway.published_date,
                    platform |-> extract_platform_from_title(giveaway.title)]]

\* the n-th smallest idx among the keys of results
NthKey(res, n) ==
    LET keys == {res[m].idx : m \in 1..Len(res)}
    IN  CHOOSE k \in keys : Cardinality({x \in keys : x <= k}) = n

ValueOf(res, k) == (CHOOSE m \in 1..Len(res) : res[m].idx = k)

RECURSIVE AppendAccepted(_, _)
\* for each entry in the given order: if result: all_games.append(result)
AppendAccepted(entries, acc) ==
    IF entries = <<>> THEN acc
    ELSE AppendAccepted(Tail(entries),
                        IF Head(entries).value.isNone THEN acc
                        ELSE Append(acc, Head(entries).value.info))

\* the loop over the results in the order of the dict (without sorted())
CollectInInsertionOrder(res) == AppendAccepted(res, <<>>)

\* for idx in sorted(results.keys()): ... all_games.append(result)
CollectInOriginalOrder(res) ==
    AppendAccepted([n \in 1..Len(res) |-> res[ValueOf(res, NthKey(res, n))]], <<>>)

Running == {i \in 1..Len(future_state) : future_state[i] = "running"}

\* the response is a list of giveaways; none (or a failed request) returns []
Fetch ==
    /\ fpc = "fetch"
    /\ \E response \in SeqUpTo(Giveaways, MaxGiveaways) :
          /\ api_games' = response
          /\ future_state' = [i \in 1..Len(response) |-> "pending"]
          /\ fpc' = IF response = <<>> THEN "returned" ELSE "collect"
    /\ UNCHANGED <<results, all_games, pc, mergeVars, name_in, normalized>>

\* a free worker takes the oldest queued task
StartTask(i) ==
    /\ fpc = "collect"
    /\ future_state[i] = "pending"
    /\ \A m \in 1..(i - 1) : future_state[m] # "pending"
    /\ Cardinality(Running) < max_workers
    /\ future_state' = [future_state EXCEPT ![i] = "running"]
    /\ UNCHANGED <<fpc, api_games, results, all_games, pc, mergeVars, name_in,
                   normalized>>

\* process_game returns on its worker
FinishTask(i) ==
    /\ fpc = "collect"
    /\ future_state[i] = "running"
    /\ future_state' = [future_state EXCEPT ![i] = "finished"]
    /\ UNCHANGED <<fpc, api_games, results, all_games, pc, mergeVars, name_in,
                   normalized>>

\* as_completed yields a finished future: results[idx] = (result, message)
CollectResult(i) ==
    /\ fpc = "collect"
    /\ future_state[i] = "finished"
    /\ results' = Append(results, [idx |-> i, value |-> process_game(api_games[i])])
    /\ future_state' = [future_state EXCEPT ![i] = "collected"]
    /\ UNCHANGED <<fpc, api_games, all_games, pc, mergeVars, name_in, normalized>>

\* every future was yielded: build all_games and return it
ReturnGames ==
    /\ fpc = "collect"
    /\ \A i \in 1..Len(future_state) : future_state[i] = "collected"
    /\ all_games' = CollectInOriginalOrder(results)
    /\ fpc' = "returned"
    /\ UNCHANGED <<api_games, future_state, results, pc, mergeVars, name_in,
                   normalized>>

InitApi ==
    /\ pc = "fetch_gamerpower_games"
    /\ Unbound
    /\ name_in = None
    /\ normalized = <<>>
    /\ fpc = "fetch"
    /\ api_games = <<>>
    /\ future_state = <<>>
    /\ results = <<>>
    /\ all_games = <<>>

NextApi ==
    \/ Fetch
    \/ \E i \in 1..MaxGiveaways + 1 : i <= Len(future_state) /\ StartTask(i)
    \/ \E i \in 1..MaxGiveaways + 1 : i <= Len(future_state) /\ FinishTask(i)
    \/ \E i \in 1..MaxGiveaways + 1 : i <= Len(future_state) /\ CollectResult(i)
    \/ ReturnGames

SpecApi == InitApi /\ [][NextApi]_vars

----------------------------------------------------------------------------
(* C11: whatever the order in which the process_game futures complete,     *)
(* fetch_gamerpower_games returns the accepted records in the order of the *)
(* API response, one for each accepted giveaway.                           *)

RECURSIVE AcceptedInResponseOrder(_)
AcceptedInResponseOrder(response) ==
    IF response = <<>> THEN <<>>
    ELSE (IF process_game(Head(response)).isNone THEN <<>>
          ELSE <<process_game(Head(response)).info>>)
         \o AcceptedInResponseOrder(Tail(response))

----------------------------------------------------------------------------
(* C12: a run of main replaces the persisted catalog exactly when the      *)
(* merged list has more records than the persisted record list (none for a *)
(* missing file) and leaves it unchanged otherwise, so over the runs       *)
(* total_games never decreases and increases at every write.              *)

\* the catalog changes exactly at a guard that finds more merged records
\* than persisted ones, and then it becomes the merged list
C12_ReplacedIffGrown ==
    /\ (games_json' # games_json) <=>
           (pc = "guard" /\ LenOf(merged) > Len(games_json))
    /\ (pc = "guard" /\ LenOf(merged) > Len(games_json)) =>
           games_json' = Games(merged)

C12_TotalGrowsAtWrites ==
    /\ total_games' >= total_games
    /\ Save => total_games' > total_games

C12_SizeGuardAcrossRuns ==
    [][C12_ReplacedIffGrown /\ C12_TotalGrowsAtWrites]_vars

\* a later run has replaced a catalog that had records
C12_Witness ==
    /\ pc = "done"
    /\ Len(existing_merged) > 0
    /\ Len(games_json) > Len(existing_merged)
    /\ games_json = Games(merged)

----------------------------------------------------------------------------
(* C13: merge_ordered_games never removes or reorders base records: the    *)
(* records at the positions that came from base are as many as base and    *)
(* carry its keys in its order, new records are only put between them, and *)
(* so the web list survives, in order, both merges of main.                *)

RECURSIVE IsSubsequence(_, _)
\* a can be had from b by leaving elements out
IsSubsequence(a, b) ==
    IF a = <<>> THEN TRUE
    ELSE IF b = <<>> THEN FALSE
    ELSE IF Head(a) = Head(b) THEN IsSubsequence(Tail(a), Tail(b))
    ELSE IsSubsequence(a, Tail(b))

\* the list without its element at position p
Without(list, p) == SubSeq(list, 1, p - 1) \o SubSeq(list, p + 1, Len(list))

\* one iteration of the loop either keeps every position and its key, or
\* puts one new object between the objects of the list, which all stay
C13_IterationKeepsPositions ==
    (call > 0 /\ pc = "loop" /\ pc' = "loop") =>
        LET before == lists[result]
            after == lists'[result']
        IN  \/ /\ Len(after) = Len(before)
               /\ KeySeq(Deref(heap', after)) = KeySeq(Deref(heap, before))
            \/ /\ Len(after) = Len(before) + 1
               /\ \E p \in 1..Len(after) :
                     /\ Without(after, p) = before
                     /\ after[p] \notin 1..Len(heap)
               /\ \A r \in 1..Len(heap) : heap'[r] = heap[r]

C13_BaseKeysInOrder ==
    /\ call > 0 =>
          IsSubsequence(KeySeq(Games(base_games)), KeySeq(Games(result)))
    /\ FoldDone =>
          IsSubsequence(KeySeq(Games(scraper3_games)), KeySeq(Games(merged)))

C13_BaseNeverRemovedOrReordered ==
    [][C13_IterationKeepsPositions]_vars /\ []C13_BaseKeysInOrder

\* the second merge of main has put a new record between two base records
\* and has reconciled a base record
C13_Witness ==
    /\ Returned
    /\ call = 2
    /\ \E p \in 2..(LenOf(result) - 1) :
          /\ Key(Games(result)[p]) \notin KeysOf(Games(base_games))
          /\ lists[result][p - 1] \in {lists[base_games][m] : m \in 1..LenOf(base_games)}
          /\ Key(Games(result)[p + 1]) \in KeysOf(Games(base_games))
    /\ \E q \in 1..LenOf(result) :
          /\ Key(Games(result)[q]) \in KeysOf(Games(base_games))
          /\ lists[result][q] \notin {lists[base_games][m] : m \in 1..LenOf(base_games)}

====
